---- MODULE Spec2Model ----
(***************************************************************************)
(* Verification-email Lambda handler.  Two variants of the same module    *)
(* live in the repository: src/index.js (credentials from the             *)
(* environment) and src/unnamed/part_000 (credentials from the secrets    *)
(* manager, fetched by a fire-and-forget async function at module load).  *)
(* The model covers module initialisation, the handler's synchronous      *)
(* prefix and each of its three awaits, with the e-mail provider, the     *)
(* datastore and the secrets manager as nondeterministic collaborators.   *)
(***************************************************************************)
EXTENDS Integers, Sequences, FiniteSets, Bags, TLC

VARIABLES variant, env, modulePc, secretsPc, rdsPassword, sendGridApiKey,
          sgApiKey, sequelize, now, inv, outbox, EmailTrackings

vars == <<variant, env, modulePc, secretsPc, rdsPassword, sendGridApiKey,
          sgApiKey, sequelize, now, inv, outbox, EmailTrackings>>

-----------------------------------------------------------------------------
(* Bounds of the model *)

MaxInvocations == 2
MaxRecords == 2
MaxClock == 1

(* JavaScript values *)

Undef == [t |-> "undefined"]
Str(s) == [t |-> "string", v |-> s]
NotArray == [t |-> "object"]
Arr(s) == [t |-> "array", v |-> s]

\* `${x}` in a template literal
ToStr(x) == IF x = Undef THEN "undefined" ELSE x.v

\* String(x), as characters
Chars(x) == IF x = Undef THEN <<"u", "n", "d", "e", "f", "i", "n", "e", "d">> ELSE x.v

\* !x for the values the handler tests
Falsy(x) == x = Undef \/ (x.t = "string" /\ x.v = <<>>)

-----------------------------------------------------------------------------
(* Inputs *)

EmailA == <<"a", "@", "x", ".", "c">>
EmailB == <<"b", "@", "x", ".", "c">>
EmailBad == <<"a", "x">>

Messages == {"not json", "{}", "{\"email\":\"a@x.c\"}", "{\"email\":\"b@x.c\"}"}

\* a batch may also carry an address that is no e-mail address
BatchMessages == Messages \cup {"{\"email\":\"ax\"}"}

SnsRecords(M) == {[Sns |-> Undef]} \cup {[Sns |-> [Message |-> m]] : m \in M}

RECURSIVE SeqsUpTo(_, _)
SeqsUpTo(S, n) ==
  IF n = 0 THEN {<<>>}
  ELSE LET shorter == SeqsUpTo(S, n - 1)
       IN  shorter \cup {Append(s, x) : s \in {q \in shorter : Len(q) = n - 1}, x \in S}

\* events whose Records, when a list, holds at most n records
EventsUpTo(M, n) == {[Records |-> Undef], [Records |-> NotArray]}
                      \cup {[Records |-> Arr(s)] : s \in SeqsUpTo(SnsRecords(M), n)}

Events == EventsUpTo(Messages, 1)

BatchEvents == EventsUpTo(BatchMessages, MaxRecords)

Tokens == {"0f", "a7"}

Variants == {"index", "secrets"}

EnvNames(v) ==
  IF v = "index"
  THEN {"DB_NAME", "DB_USERNAME", "DB_PASSWORD", "DB_HOST", "DOMAIN_NAME",
        "SENDGRID_API_KEY", "SENDGRID_FROM_EMAIL"}
  ELSE {"DB_DATABASE", "DB_USERNAME", "DB_HOST", "DOMAIN_NAME", "SENDGRID_FROM_EMAIL"}

EnvValue(n) == IF n = "DOMAIN_NAME" THEN Str("example.org") ELSE Str(n)

\* The connection parameters are only handed to the Sequelize constructor, so
\* one of them stands for the others when a value is absent.
MayBeAbsent(v) ==
  IF v = "index"
  THEN {"DB_PASSWORD", "DOMAIN_NAME", "SENDGRID_API_KEY", "SENDGRID_FROM_EMAIL"}
  ELSE {"DB_HOST", "DOMAIN_NAME", "SENDGRID_FROM_EMAIL"}

\* every value set, or exactly one of them absent
Environments(v) ==
  {[n \in EnvNames(v) |-> EnvValue(n)]}
    \cup {[n \in EnvNames(v) |-> IF n = absent THEN Undef ELSE EnvValue(n)] :
            absent \in MayBeAbsent(v)}

TickMs == 60 * 1000

-----------------------------------------------------------------------------
(* Pure parts of the handler *)

\* JSON.parse on the message literals
JSONparse(s) ==
  CASE s = "{}" -> [ok |-> TRUE, value |-> [email |-> Undef]]
    [] s = "{\"email\":\"a@x.c\"}" -> [ok |-> TRUE, value |-> [email |-> Str(EmailA)]]
    [] s = "{\"email\":\"b@x.c\"}" -> [ok |-> TRUE, value |-> [email |-> Str(EmailB)]]
    [] s = "{\"email\":\"ax\"}" -> [ok |-> TRUE, value |-> [email |-> Str(EmailBad)]]
    [] OTHER -> [ok |-> FALSE, value |-> [email |-> Undef]]

\* encodeURIComponent, character by character
EncodeChar(c) == IF c = "@" THEN <<"%", "4", "0">> ELSE <<c>>

RECURSIVE encodeURIComponent(_)
encodeURIComponent(s) ==
  IF s = <<>> THEN <<>> ELSE EncodeChar(Head(s)) \o encodeURIComponent(Tail(s))

\* validate: { isEmail: true }: local part, one "@", a domain with a dot inside
isEmail(x) ==
  /\ x.t = "string"
  /\ \E k \in 2..(Len(x.v) - 1) :
       /\ x.v[k] = "@"
       /\ \A j \in 1..Len(x.v) : j # k => x.v[j] # "@"
       /\ \E d \in (k + 2)..(Len(x.v) - 1) : x.v[d] = "."

\* a handler that reads the newest record of the batch
LastRecord(event) == event.Records.v[Len(event.Records.v)]

\* event.Records[0]
FirstRecord(event) == event.Records.v[1]

\* the extraction without the `if (!email)` test
ExtractEmail_NoEmailTest(event) ==
  IF event.Records = Undef \/ event.Records.t # "array" \/ Len(event.Records.v) = 0
  THEN [ok |-> FALSE, email |-> Undef, cause |-> "Invalid event structure: No Records found"]
  ELSE LET rec == FirstRecord(event)
       IN  IF rec.Sns = Undef
           THEN [ok |-> FALSE, email |-> Undef, cause |-> "TypeError"]
           ELSE LET parsed == JSONparse(rec.Sns.Message)
                IN  IF ~parsed.ok
                    THEN [ok |-> FALSE, email |-> Undef, cause |-> "SyntaxError"]
                    ELSE [ok |-> TRUE, email |-> parsed.value.email, cause |-> "none"]

\* the handler up to the e-mail extraction: the error thrown, or the e-mail
ExtractEmail(event) ==
  IF event.Records = Undef \/ event.Records.t # "array" \/ Len(event.Records.v) = 0
  THEN [ok |-> FALSE, email |-> Undef, cause |-> "Invalid event structure: No Records found"]
  ELSE LET rec == FirstRecord(event)
       IN  IF rec.Sns = Undef
           THEN [ok |-> FALSE, email |-> Undef, cause |-> "TypeError"]
           ELSE LET parsed == JSONparse(rec.Sns.Message)
                IN  IF ~parsed.ok
                    THEN [ok |-> FALSE, email |-> Undef, cause |-> "SyntaxError"]
                    ELSE IF Falsy(parsed.value.email)
                         THEN [ok |-> FALSE, email |-> Undef,
                               cause |-> "Invalid SNS message: Missing email field"]
                         ELSE [ok |-> TRUE, email |-> parsed.value.email, cause |-> "none"]

\* an expiry window written in seconds, not milliseconds
generateVerificationLink_Seconds(email, nowMs, tok, domain) ==
  [token |-> tok,
   expiryTime |-> nowMs + 2 * 60,
   link |-> [domain |-> ToStr(domain), email |-> encodeURIComponent(Chars(email)), token |-> tok]]

generateVerificationLink(email, nowMs, tok, domain) ==
  [token |-> tok,
   expiryTime |-> nowMs + 2 * 60 * 1000,
   link |-> [domain |-> ToStr(domain), email |-> encodeURIComponent(Chars(email)), token |-> tok]]

\* emailContent, with the key sgMail holds when send is called
EmailRequest(email, link, from, key) ==
  [to |-> email, from |-> from, subject |-> "Verify Your Email", link |-> link, auth |-> key]

\* the provider delivers only authenticated requests from a sender address
ProviderAccepts(req) == req.auth # Undef /\ req.from # Undef

-----------------------------------------------------------------------------
(* Invocation records *)

Invs == 1..MaxInvocations

NoLink == [domain |-> "", email |-> <<>>, token |-> ""]
NoRequest == EmailRequest(Undef, NoLink, Undef, Undef)

Idle ==
  [pc |-> "idle", event |-> [Records |-> Undef], email |-> Undef, token |-> "",
   link |-> NoLink, expiryTime |-> -1, generatedAt |-> -1, request |-> NoRequest,
   calls |-> <<>>, cause |-> "none", raised |-> "none"]

\* the handler's locals go out of scope when it returns or throws
Release(r) ==
  [r EXCEPT !.email = Undef, !.token = "", !.link = NoLink, !.expiryTime = -1,
            !.generatedAt = -1, !.request = NoRequest]

\* a catch block that logs the error and returns
HandlerCatch_Swallow(r, cause) ==
  [Release(r) EXCEPT !.pc = "returned", !.cause = cause]

\* catch (error) { throw new Error('Verification process failed') }
HandlerCatch(r, cause) ==
  [Release(r) EXCEPT !.pc = "thrown", !.cause = cause,
                     !.raised = "Verification process failed"]

\* await sendVerificationEmail returned: sequelize.sync() is called
SendSucceeded(r) == [r EXCEPT !.pc = "sync", !.calls = Append(@, "sync")]

\* a sendVerificationEmail whose catch logs the error and does not rethrow
SendFailed_NoRethrow(r) ==
  [SendSucceeded(r) EXCEPT !.cause = "Failed to send verification email"]

\* sendVerificationEmail's catch, rethrown into the handler's catch
SendFailed(r) == HandlerCatch(r, "Failed to send verification email")

\* await sequelize.sync() returned: EmailTracking.create is called
SyncSucceeded(r) == [r EXCEPT !.pc = "create", !.calls = Append(@, "create")]

\* a sync whose rejection is not awaited: the handler goes on to create
SyncFailed_GoesOn(r) == [SyncSucceeded(r) EXCEPT !.cause = "sequelize.sync rejected"]

SyncFailed(r) == HandlerCatch(r, "sequelize.sync rejected")

CreateFailed(r) == HandlerCatch(r, "EmailTracking.create rejected")

CreateSucceeded(r) == [Release(r) EXCEPT !.pc = "returned"]

\* a row that stores a token other than the one that was mailed
TrackingRow_OtherToken(r) == [email |-> r.email, token |-> "ff", expiryTime |-> r.expiryTime]

\* the values handed to EmailTracking.create
TrackingRow(r) == [email |-> r.email, token |-> r.token, expiryTime |-> r.expiryTime]

\* allowNull: false on the three columns, isEmail on email
RowValid(row) == row.email # Undef /\ row.token # "" /\ row.expiryTime # -1 /\ isEmail(row.email)

\* the handler from its entry to its first await (or to its throw)
StartHandler(event, nowMs, tok) ==
  LET x == ExtractEmail(event)
      base == [Idle EXCEPT !.event = event]
  IN  IF ~x.ok
      THEN HandlerCatch(base, x.cause)
      ELSE LET g == generateVerificationLink(x.email, nowMs, tok, env["DOMAIN_NAME"])
           IN  [base EXCEPT !.pc = "send", !.email = x.email, !.token = g.token,
                            !.link = g.link, !.expiryTime = g.expiryTime,
                            !.generatedAt = nowMs,
                            !.request = EmailRequest(x.email, g.link,
                                                     env["SENDGRID_FROM_EMAIL"], sgApiKey),
                            !.calls = <<"send">>]

-----------------------------------------------------------------------------
(* Module initialisation *)

Init ==
  /\ variant \in Variants
  /\ env \in Environments(variant)
  /\ modulePc = "loading"
  /\ secretsPc = "none"
  /\ rdsPassword = Undef
  /\ sendGridApiKey = Undef
  /\ sgApiKey = Undef
  /\ sequelize = [constructed |-> FALSE, database |-> Undef, username |-> Undef,
                  password |-> Undef, host |-> Undef]
  /\ now = 0
  /\ inv = [i \in Invs |-> Idle]
  /\ outbox = EmptyBag
  /\ EmailTrackings = EmptyBag

\* src/index.js, top level
LoadIndex ==
  /\ variant = "index"
  /\ modulePc = "loading"
  /\ sgApiKey' = env["SENDGRID_API_KEY"]
  /\ sequelize' = [constructed |-> TRUE, database |-> env["DB_NAME"],
                   username |-> env["DB_USERNAME"], password |-> env["DB_PASSWORD"],
                   host |-> env["DB_HOST"]]
  /\ modulePc' = "loaded"
  /\ UNCHANGED <<variant, env, secretsPc, rdsPassword, sendGridApiKey, now, inv, outbox,
                 EmailTrackings>>

\* src/unnamed/part_000, top level: the async function runs to its first await,
\* then the rest of the module is evaluated
LoadSecrets ==
  /\ variant = "secrets"
  /\ modulePc = "loading"
  /\ secretsPc' = "rds"
  /\ sequelize' = [constructed |-> TRUE, database |-> env["DB_DATABASE"],
                   username |-> env["DB_USERNAME"], password |-> rdsPassword,
                   host |-> env["DB_HOST"]]
  /\ modulePc' = "loaded"
  /\ UNCHANGED <<variant, env, rdsPassword, sendGridApiKey, sgApiKey, now, inv, outbox,
                 EmailTrackings>>

RdsSecretResolved ==
  /\ secretsPc = "rds"
  /\ rdsPassword' = Str("rds-db-password")
  /\ secretsPc' = "sendgrid"
  /\ UNCHANGED <<variant, env, modulePc, sendGridApiKey, sgApiKey, sequelize, now, inv,
                 outbox, EmailTrackings>>

SendGridSecretResolved ==
  /\ secretsPc = "sendgrid"
  /\ sendGridApiKey' = Str("sendgrid-api-key")
  /\ sgApiKey' = sendGridApiKey'
  /\ secretsPc' = "done"
  /\ UNCHANGED <<variant, env, modulePc, rdsPassword, sequelize, now, inv, outbox,
                 EmailTrackings>>

\* getSecret throws; the async function's catch logs and returns
SecretRejected ==
  /\ secretsPc \in {"rds", "sendgrid"}
  /\ secretsPc' = "failed"
  /\ UNCHANGED <<variant, env, modulePc, rdsPassword, sendGridApiKey, sgApiKey, sequelize,
                 now, inv, outbox, EmailTrackings>>

-----------------------------------------------------------------------------
(* The handler *)

moduleVars == <<variant, env, modulePc, secretsPc, rdsPassword, sendGridApiKey, sgApiKey,
                sequelize>>

InvokeWith(i, E) ==
  /\ modulePc = "loaded"
  /\ inv[i].pc = "idle"
  /\ \A j \in Invs : j < i => inv[j].pc # "idle"
  /\ \E event \in E, tok \in Tokens :
       inv' = [inv EXCEPT ![i] = StartHandler(event, now, tok)]
  /\ UNCHANGED <<moduleVars, now, outbox, EmailTrackings>>

Invoke(i) == InvokeWith(i, Events)

\* one invocation with a batch of records
InvokeBatch == InvokeWith(1, BatchEvents)

SendResolve(i) ==
  /\ inv[i].pc = "send"
  /\ ProviderAccepts(inv[i].request)
  /\ outbox' = outbox (+) SetToBag({[inv |-> i, to |-> inv[i].request.to,
                                     from |-> inv[i].request.from,
                                     link |-> inv[i].request.link]})
  /\ inv' = [inv EXCEPT ![i] = SendSucceeded(@)]
  /\ UNCHANGED <<moduleVars, now, EmailTrackings>>

SendReject(i) ==
  /\ inv[i].pc = "send"
  /\ inv' = [inv EXCEPT ![i] = SendFailed(@)]
  /\ UNCHANGED <<moduleVars, now, outbox, EmailTrackings>>

SyncResolve(i) ==
  /\ inv[i].pc = "sync"
  /\ inv' = [inv EXCEPT ![i] = SyncSucceeded(@)]
  /\ UNCHANGED <<moduleVars, now, outbox, EmailTrackings>>

SyncReject(i) ==
  /\ inv[i].pc = "sync"
  /\ inv' = [inv EXCEPT ![i] = SyncFailed(@)]
  /\ UNCHANGED <<moduleVars, now, outbox, EmailTrackings>>

CreateResolve(i) ==
  /\ inv[i].pc = "create"
  /\ RowValid(TrackingRow(inv[i]))
  /\ EmailTrackings' = EmailTrackings (+) SetToBag({[inv |-> i,
                                                     generatedAt |-> inv[i].generatedAt,
                                                     row |-> TrackingRow(inv[i])]})
  /\ inv' = [inv EXCEPT ![i] = CreateSucceeded(@)]
  /\ UNCHANGED <<moduleVars, now, outbox>>

CreateReject(i) ==
  /\ inv[i].pc = "create"
  /\ inv' = [inv EXCEPT ![i] = CreateFailed(@)]
  /\ UNCHANGED <<moduleVars, now, outbox, EmailTrackings>>

\* time passes while a call is awaited
Tick ==
  /\ now < MaxClock * TickMs
  /\ \E i \in Invs : inv[i].pc \in {"send", "sync", "create"}
  /\ now' = now + TickMs
  /\ UNCHANGED <<moduleVars, inv, outbox, EmailTrackings>>

Next ==
  \/ LoadIndex
  \/ LoadSecrets
  \/ RdsSecretResolved
  \/ SendGridSecretResolved
  \/ SecretRejected
  \/ Tick
  \/ \E i \in Invs : Invoke(i)
  \/ \E i \in Invs : SendResolve(i)
  \/ \E i \in Invs : SendReject(i)
  \/ \E i \in Invs : SyncResolve(i)
  \/ \E i \in Invs : SyncReject(i)
  \/ \E i \in Invs : CreateResolve(i)
  \/ \E i \in Invs : CreateReject(i)

Spec == Init /\ [][Next]_vars

NextBatch ==
  \/ LoadIndex
  \/ LoadSecrets
  \/ RdsSecretResolved
  \/ SendGridSecretResolved
  \/ SecretRejected
  \/ Tick
  \/ InvokeBatch
  \/ \E i \in Invs : SendResolve(i)
  \/ \E i \in Invs : SendReject(i)
  \/ \E i \in Invs : SyncResolve(i)
  \/ \E i \in Invs : SyncReject(i)
  \/ \E i \in Invs : CreateResolve(i)
  \/ \E i \in Invs : CreateReject(i)

SpecBatch == Init /\ [][NextBatch]_vars

-----------------------------------------------------------------------------
(* What the collaborators have seen of one invocation *)

SentBy(i) == {m \in BagToSet(outbox) : m.inv = i}
RowsBy(i) == {e \in BagToSet(EmailTrackings) : e.inv = i}

SentCount(i) == BagCardinality([m \in SentBy(i) |-> CopiesIn(m, outbox)])
RowCount(i) == BagCardinality([e \in RowsBy(i) |-> CopiesIn(e, EmailTrackings)])

GenericError == "Verification process failed"
SendError == "Failed to send verification email"
PersistenceErrors == {"sequelize.sync rejected", "EmailTracking.create rejected"}
MalformedEventErrors == {"Invalid event structure: No Records found", "SyntaxError",
                         "Invalid SNS message: Missing email field"}

ExpiryWindowMs == 120000

HasRecords(event) ==
  event.Records # Undef /\ event.Records.t = "array" /\ Len(event.Records.v) >= 1

\* the address a record carries, if it carries one
EmailOfRecord(rec) ==
  IF rec.Sns = Undef THEN Undef
  ELSE LET parsed == JSONparse(rec.Sns.Message)
       IN  IF parsed.ok /\ ~Falsy(parsed.value.email) THEN parsed.value.email ELSE Undef

\* the malformed events of the specification: no record list, an unparsable
\* message in the first record, or a message without an email field
Malformed(event) ==
  \/ ~HasRecords(event)
  \/ /\ event.Records.v[1].Sns # Undef
     /\ EmailOfRecord(event.Records.v[1]) = Undef

-----------------------------------------------------------------------------
(* Claims *)

\* C1: when sgMail.send reports failure the invocation fails with an error and
\* neither sequelize.sync nor EmailTracking.create is called: no row is written.
C1_SendFailureSkipsDatastore ==
  \A i \in Invs :
    inv[i].cause = SendError =>
      /\ inv[i].pc = "thrown"
      /\ inv[i].raised # "none"
      /\ inv[i].calls = <<"send">>
      /\ RowCount(i) = 0

C1_Witness ==
  \E i \in Invs : inv[i].pc = "thrown" /\ inv[i].cause = SendError /\ sgApiKey # Undef

\* C2: a malformed event (no non-empty record list, an unparsable first
\* message, or no email field) fails at the event stage and no outbound call
\* is made: no send, no sync, no create.
C2_MalformedEventNoOutboundCalls ==
  \A i \in Invs :
    (inv[i].pc # "idle" /\ Malformed(inv[i].event)) =>
      /\ inv[i].pc = "thrown"
      /\ inv[i].cause \in MalformedEventErrors
      /\ inv[i].calls = <<>>
      /\ SentCount(i) = 0
      /\ RowCount(i) = 0

C2_Witness ==
  /\ \E i \in Invs : inv[i].pc = "thrown"
                       /\ inv[i].cause = "Invalid SNS message: Missing email field"
  /\ \E i \in Invs : inv[i].pc = "thrown" /\ inv[i].cause = "SyntaxError"

\* C3: a failure at any stage ends the invocation with the generic
\* 'Verification process failed' error, and an invocation that returns
\* normally has sent its e-mail and written its row.
C3_FailuresSurfaceGenericError ==
  \A i \in Invs :
    /\ inv[i].cause # "none" => inv[i].pc = "thrown"
    /\ inv[i].pc = "thrown" => inv[i].raised = GenericError /\ inv[i].cause # "none"
    /\ inv[i].pc = "returned" =>
         /\ inv[i].raised = "none"
         /\ SentCount(i) = 1
         /\ RowCount(i) = 1

C3_Witness ==
  /\ inv[1].pc = "thrown" /\ inv[1].cause = "EmailTracking.create rejected"
  /\ inv[2].pc = "returned"

\* C4: when sync or create fails after the e-mail was sent, the invocation
\* fails with an error, the e-mail stays sent (no compensating call is made)
\* and the invocation has no tracking row.
C4_DatastoreFailureKeepsEmail ==
  \A i \in Invs :
    inv[i].cause \in PersistenceErrors =>
      /\ inv[i].pc = "thrown"
      /\ inv[i].raised = GenericError
      /\ SentCount(i) = 1
      /\ RowCount(i) = 0
      /\ inv[i].calls \in {<<"send", "sync">>, <<"send", "sync", "create">>}

C4_Witness ==
  /\ inv[1].pc = "thrown" /\ inv[1].cause = "sequelize.sync rejected"
  /\ inv[2].pc = "thrown" /\ inv[2].cause = "EmailTracking.create rejected"
  /\ SentCount(1) = 1 /\ SentCount(2) = 1

\* C5: once the start-up secret retrieval has failed the instance handles no
\* invocation: from then on no handler invocation calls the e-mail provider
\* or the datastore, nothing is sent and nothing is written.
C5_SecretFailureIsFatal ==
  [][secretsPc = "failed" =>
       /\ \A i \in Invs : inv'[i].calls = inv[i].calls
       /\ outbox' = outbox
       /\ EmailTrackings' = EmailTrackings]_vars

\* C6: with a required configuration value absent no outbound call is made,
\* and no e-mail is sent whose link or sender was built from an absent value.
C6_MissingConfigFailsFast ==
  /\ (\E n \in DOMAIN env : env[n] = Undef) => \A i \in Invs : inv[i].calls = <<>>
  /\ \A m \in BagToSet(outbox) : m.link.domain # "undefined" /\ m.from # Undef

\* C7: every persisted row has an email, a token and an expiry time, and the
\* expiry time is the time its token was generated plus 120 seconds, however
\* long the send and the sync took.
C7_RowsCompleteWithFixedExpiry ==
  \A e \in BagToSet(EmailTrackings) :
    /\ e.row.email # Undef
    /\ e.row.token # ""
    /\ e.row.expiryTime # -1
    /\ e.row.expiryTime = e.generatedAt + ExpiryWindowMs

\* a row written after time passed during the awaits of its own invocation
C7_Witness ==
  /\ \E e \in BagToSet(EmailTrackings) : e.inv = 1 /\ e.generatedAt < now
  /\ inv[2].pc = "idle"

\* C8: for an event with n >= 1 records one invocation sends at most one
\* e-mail and writes at most one row, both for the address of the first
\* record, and whether it gets that far depends on the first record alone.
C8_OnlyFirstRecordConsulted ==
  \A i \in Invs :
    (inv[i].pc # "idle" /\ HasRecords(inv[i].event)) =>
      LET first == EmailOfRecord(inv[i].event.Records.v[1])
      IN  /\ SentCount(i) <= 1
          /\ RowCount(i) <= 1
          /\ \A m \in SentBy(i) : m.to = first
          /\ \A e \in RowsBy(i) : e.row.email = first
          /\ first = Undef => inv[i].pc = "thrown" /\ inv[i].calls = <<>>
          /\ first # Undef => inv[i].calls # <<>>
          /\ inv[i].pc \in {"send", "sync", "create"} => inv[i].email = first

C8_Witness ==
  \E i \in Invs :
    /\ inv[i].pc = "returned"
    /\ HasRecords(inv[i].event)
    /\ Len(inv[i].event.Records.v) = 2
    /\ EmailOfRecord(inv[i].event.Records.v[2]) # Undef
    /\ EmailOfRecord(inv[i].event.Records.v[2]) # EmailOfRecord(inv[i].event.Records.v[1])
    /\ RowCount(i) = 1

\* C9: every row carries the (email, token) of an e-mail already sent by the
\* same invocation, so rows never outnumber sent e-mails; the send precedes
\* the write, and a successful invocation adds exactly one row.
C9_RowsFollowSentEmails ==
  /\ \A e \in BagToSet(EmailTrackings) :
       \E m \in SentBy(e.inv) : m.to = e.row.email /\ m.link.token = e.row.token
  /\ BagCardinality(EmailTrackings) <= BagCardinality(outbox)
  /\ \A i \in Invs :
       /\ RowCount(i) <= SentCount(i)
       /\ RowCount(i) <= 1
       /\ inv[i].pc = "returned" => RowCount(i) = 1
       /\ inv[i].pc = "create" => inv[i].calls = <<"send", "sync", "create">> /\ SentCount(i) = 1

\* the second invocation has written its row while the first, started
\* earlier, is still waiting for the datastore
C9_Witness ==
  /\ RowCount(2) = 1
  /\ inv[1].pc = "sync"
  /\ SentCount(1) = 1

\* C10: in the secrets-manager variant the datastore connection holds the
\* retrieved RDS password, and an invocation is past its e-mail dispatch only
\* when the start-up secret retrieval has completed.
C10_SecretsInPlaceBeforeUse ==
  variant = "secrets" =>
    /\ sequelize.constructed => sequelize.password = Str("rds-db-password")
    /\ \A i \in Invs : inv[i].calls # <<>> => secretsPc = "done"

====
